---- MODULE Spec2Model ----
(***************************************************************************)
(* Model of the incident dashboard components:                             *)
(*   IncidentsList  (src/unnamed/part_000)                                 *)
(*   IncidentsTable (src/src/components/IncidentsTable.tsx)                *)
(*   TrendsChart    (src/src/components/TrendsChart.tsx)                   *)
(*                                                                         *)
(* JavaScript strings are TLA+ strings drawn from a finite vocabulary;     *)
(* Chars gives the UTF-16 code units of each, and toLowerCase, includes    *)
(* and the relational operators work on the code units, as the engine      *)
(* does.  The vocabulary is ASCII, where toLowerCase maps A-Z to a-z.      *)
(*                                                                         *)
(* Array.prototype.sort is stable (ECMAScript 2019 and later) and calls    *)
(* the comparator on the pairs its algorithm visits, which the language    *)
(* leaves to the engine; it is computed here as V8 does it on arrays of    *)
(* fewer than 64 elements: run detection, then binary insertion.  A        *)
(* comparator call throws when its first argument has a string under the   *)
(* sort field and its second has none; the sort then throws and the        *)
(* render fails.                                                           *)
(*                                                                         *)
(* Four specifications share the variables: Spec (sorting and filtering    *)
(* as a state machine), SpecApply (the pipeline, the chart and the         *)
(* MetricsAggregator applied once to given inputs), SpecHost (rows,        *)
(* details modal and mutation calls of IncidentsList) and SpecModal (the   *)
(* details modal among filters, sort and refreshes).  summarize,           *)
(* bucketByDay and getIncidents are not among the sources and follow the   *)
(* specification's contracts; the value useQuery gives IncidentsList is    *)
(* undefined or the list getIncidents selects, for the arguments of the    *)
(* render at hand, from the records the collaborator holds.                *)
(***************************************************************************)
EXTENDS Integers, Sequences, FiniteSets, TLC

VARIABLES
  component,       \* which component this instance is
  db,              \* IncidentsList: the records the query collaborator holds
  queryResult,     \* IncidentsList: value of useQuery; IncidentsTable: the incidents prop
  sortField,       \* useState sortField
  sortDirection,   \* useState sortDirection
  searchTerm,      \* useState searchTerm
  statusFilter,    \* useState statusFilter
  priorityFilter,  \* useState priorityFilter
  countyFilter,    \* useState countyFilter (IncidentsList only)
  data,            \* TrendsChart: the data prop
  rendered,        \* output of the last render of the list/table body
  chart,           \* output of the last render of TrendsChart
  aggregate,       \* MetricsAggregator: its inputs and what it has returned
  selectedIncident,\* useState selectedIncident (IncidentsList only)
  showDetails,     \* useState showDetails (IncidentsList only)
  calls            \* the mutation calls issued so far, each with its state and
                   \* the toasts its handler has shown

\* The state of the rows and of the details modal of IncidentsList.
hostVars == << selectedIncident, showDetails, calls >>

vars == << component, db, queryResult, sortField, sortDirection, searchTerm,
           statusFilter, priorityFilter, countyFilter, data, rendered, chart,
           aggregate, selectedIncident, showDetails, calls >>

(***************************************************************************)
(* Bounds and input sets                                                   *)
(***************************************************************************)
MaxIncidents == 3

MaxListed == 2

MaxPoints == 2

MaxCount == 2

\* Most rows of the list on which rows, selects and buttons are used.
MaxHostRows == 1

\* Most mutation calls issued in one behaviour.
MaxCalls == 2

\* Most records given to the MetricsAggregator.
MaxBucketed == 3

\* Longest trailing window asked of bucketByDay.
MaxWindow == 7

\* Length of a calendar day in the units of incidentDate.
TicksPerDay == 2

\* Records of the underlying data set (distinct _id, as the database gives).
\* An optional field is a pair: whether it is defined, and its string.
P1 ==
  [ _id |-> "k1a", incidentType |-> "cattle_raid", county |-> "Baringo",
    location |-> "Kapedo", incidentDate |-> 5, priority |-> "critical",
    status |-> "reported", description |-> "Armed raid",
    casualties |-> [deaths |-> 2, injuries |-> 1, missing |-> 0],
    livestockStolen |-> [cattle |-> 5, goats |-> 0, sheep |-> 0, camels |-> 0, other |-> 0],
    isVerified |-> FALSE,
    isAnonymous |-> FALSE,
    reporterName |-> [defined |-> TRUE, value |-> "John"],
    reporterPhone |-> [defined |-> TRUE, value |-> "0700"],
    _creationTime |-> 6, reportedDate |-> 6,
    subcounty |-> [defined |-> TRUE, value |-> "Tiaty"],
    respondingAgencies |-> << "KPS", "KDF" >>,
    actionsTaken |-> [defined |-> TRUE, value |-> "Patrol"],
    responseTime |-> [defined |-> TRUE, value |-> 4] ]

P2 ==
  [ _id |-> "K2b", incidentType |-> "Banditry", county |-> "turkana",
    location |-> "lokori", incidentDate |-> 3, priority |-> "low",
    status |-> "resolved", description |-> "Goats stolen",
    casualties |-> [deaths |-> 0, injuries |-> 0, missing |-> 0],
    livestockStolen |-> [cattle |-> 0, goats |-> 3, sheep |-> 0, camels |-> 0, other |-> 0],
    isVerified |-> TRUE,
    isAnonymous |-> TRUE,
    reporterName |-> [defined |-> TRUE, value |-> "Mary"],
    reporterPhone |-> [defined |-> TRUE, value |-> "0711"],
    _creationTime |-> 4, reportedDate |-> 3,
    subcounty |-> [defined |-> FALSE, value |-> ""],
    respondingAgencies |-> << "KDF" >>,
    actionsTaken |-> [defined |-> FALSE, value |-> ""],
    responseTime |-> [defined |-> TRUE, value |-> 2] ]

P3 ==
  [ _id |-> "k3c", incidentType |-> "cattle_raid", county |-> "Turkana",
    location |-> "kapedo", incidentDate |-> 5, priority |-> "critical",
    status |-> "resolved", description |-> "raid at dawn",
    casualties |-> [deaths |-> 1, injuries |-> 1, missing |-> 3],
    livestockStolen |-> [cattle |-> 1, goats |-> 1, sheep |-> 1, camels |-> 1, other |-> 1],
    isVerified |-> FALSE,
    isAnonymous |-> FALSE,
    reporterName |-> [defined |-> FALSE, value |-> ""],
    reporterPhone |-> [defined |-> TRUE, value |-> ""],
    _creationTime |-> 7, reportedDate |-> 7,
    subcounty |-> [defined |-> TRUE, value |-> "tiaty"],
    respondingAgencies |-> << >>,
    actionsTaken |-> [defined |-> TRUE, value |-> "patrol"],
    responseTime |-> [defined |-> FALSE, value |-> 0] ]

P4 ==
  [ _id |-> "zq9", incidentType |-> "ambush", county |-> "samburu",
    location |-> "baragoi", incidentDate |-> 8, priority |-> "high",
    status |-> "investigating", description |-> "Night attack",
    casualties |-> [deaths |-> 0, injuries |-> 2, missing |-> 1],
    livestockStolen |-> [cattle |-> 0, goats |-> 0, sheep |-> 2, camels |-> 0, other |-> 7],
    isVerified |-> TRUE,
    isAnonymous |-> TRUE,
    reporterName |-> [defined |-> FALSE, value |-> ""],
    reporterPhone |-> [defined |-> FALSE, value |-> ""],
    _creationTime |-> 9, reportedDate |-> 8,
    subcounty |-> [defined |-> FALSE, value |-> ""],
    respondingAgencies |-> << "KPS" >>,
    actionsTaken |-> [defined |-> FALSE, value |-> ""],
    responseTime |-> [defined |-> FALSE, value |-> 0] ]

IncidentPool == {P1, P2, P3, P4}

\* Lists of at most MaxIncidents records of the pool, without repetition.
IncidentLists ==
  UNION { { s \in [1..n -> IncidentPool] : \A i, j \in 1..n : i # j => s[i] # s[j] }
          : n \in 0..MaxIncidents }

\* Record lists the collaborator holds, or the parent passes, while the
\* components run as a state machine.
ListedLists == { s \in IncidentLists : Len(s) <= MaxListed }

\* Record lists given to the MetricsAggregator.
BucketedLists ==
  UNION { { s \in [1..n -> IncidentPool] : \A i, j \in 1..n : i # j => s[i] # s[j] }
          : n \in 0..MaxBucketed }

\* Windows asked of bucketByDay, the non-positive ones included, and the
\* instants taken as "now".
WindowInputs == (0 - 1)..MaxWindow

NowInputs == {5, 9}

\* What the user types or selects: "" is the empty field / the "All" option,
\* the other values are some of the options the selects offer.
SearchInputs == {"", "K2", "Kap", "TURK", "RAID"}

StatusInputs == {"", "resolved"}

PriorityInputs == {"", "critical"}

CountyInputs == {"", "Baringo"}

\* Column headers that call handleSort.
ListHeaders == {"_id", "incidentDate", "incidentType", "location", "priority", "status"}

TableHeaders == {"incidentDate", "incidentType", "location", "priority", "status", "totalCasualties"}

\* The sort fields a component can hold: the initial one and those its
\* headers give to handleSort.
HeadersOf(comp) == IF comp = "IncidentsList" THEN ListHeaders ELSE TableHeaders

\* The three counts of one point of the trend.
TrendPoints ==
  [ incidents : 0..MaxCount, critical : 0..MaxCount, resolved : 0..MaxCount ]

\* A point of the data prop: a date (a day number) and the three counts.
Dated(counts, day) ==
  [ date |-> day, incidents |-> counts.incidents,
    critical |-> counts.critical, resolved |-> counts.resolved ]

\* The data prop: missing, or a list of at most MaxPoints points on
\* consecutive days.
DataInputs ==
  { [present |-> FALSE, points |-> << >>] } \cup
  { [present |-> TRUE, points |-> [ i \in 1..Len(p) |-> Dated(p[i], i) ]] :
      p \in UNION { [1..n -> TrendPoints] : n \in 0..MaxPoints } }

(***************************************************************************)
(* JavaScript strings                                                      *)
(***************************************************************************)
Chars(s) ==
  CASE s = "" -> << >>
    [] s = "k1a" -> <<107, 49, 97>>
    [] s = "K2b" -> <<75, 50, 98>>
    [] s = "k3c" -> <<107, 51, 99>>
    [] s = "zq9" -> <<122, 113, 57>>
    [] s = "cattle_raid" -> <<99, 97, 116, 116, 108, 101, 95, 114, 97, 105, 100>>
    [] s = "Banditry" -> <<66, 97, 110, 100, 105, 116, 114, 121>>
    [] s = "ambush" -> <<97, 109, 98, 117, 115, 104>>
    [] s = "Baringo" -> <<66, 97, 114, 105, 110, 103, 111>>
    [] s = "turkana" -> <<116, 117, 114, 107, 97, 110, 97>>
    [] s = "Turkana" -> <<84, 117, 114, 107, 97, 110, 97>>
    [] s = "samburu" -> <<115, 97, 109, 98, 117, 114, 117>>
    [] s = "Kapedo" -> <<75, 97, 112, 101, 100, 111>>
    [] s = "kapedo" -> <<107, 97, 112, 101, 100, 111>>
    [] s = "lokori" -> <<108, 111, 107, 111, 114, 105>>
    [] s = "baragoi" -> <<98, 97, 114, 97, 103, 111, 105>>
    [] s = "low" -> <<108, 111, 119>>
    [] s = "medium" -> <<109, 101, 100, 105, 117, 109>>
    [] s = "high" -> <<104, 105, 103, 104>>
    [] s = "critical" -> <<99, 114, 105, 116, 105, 99, 97, 108>>
    [] s = "reported" -> <<114, 101, 112, 111, 114, 116, 101, 100>>
    [] s = "verified" -> <<118, 101, 114, 105, 102, 105, 101, 100>>
    [] s = "investigating" -> <<105, 110, 118, 101, 115, 116, 105, 103, 97, 116, 105, 110, 103>>
    [] s = "resolved" -> <<114, 101, 115, 111, 108, 118, 101, 100>>
    [] s = "closed" -> <<99, 108, 111, 115, 101, 100>>
    [] s = "Armed raid" -> <<65, 114, 109, 101, 100, 32, 114, 97, 105, 100>>
    [] s = "Goats stolen" -> <<71, 111, 97, 116, 115, 32, 115, 116, 111, 108, 101, 110>>
    [] s = "raid at dawn" -> <<114, 97, 105, 100, 32, 97, 116, 32, 100, 97, 119, 110>>
    [] s = "Night attack" -> <<78, 105, 103, 104, 116, 32, 97, 116, 116, 97, 99, 107>>
    [] s = "John" -> <<74, 111, 104, 110>>
    [] s = "Mary" -> <<77, 97, 114, 121>>
    [] s = "0700" -> <<48, 55, 48, 48>>
    [] s = "0711" -> <<48, 55, 49, 49>>
    [] s = "Tiaty" -> <<84, 105, 97, 116, 121>>
    [] s = "tiaty" -> <<116, 105, 97, 116, 121>>
    [] s = "Patrol" -> <<80, 97, 116, 114, 111, 108>>
    [] s = "patrol" -> <<112, 97, 116, 114, 111, 108>>
    [] s = "KPS" -> <<75, 80, 83>>
    [] s = "KDF" -> <<75, 68, 70>>
    [] s = "K2" -> <<75, 50>>
    [] s = "Kap" -> <<75, 97, 112>>
    [] s = "TURK" -> <<84, 85, 82, 75>>
    [] s = "RAID" -> <<82, 65, 73, 68>>

\* String.prototype.toLowerCase on code units (ASCII).
toLowerCase(cs) ==
  [ i \in 1..Len(cs) |-> IF cs[i] >= 65 /\ cs[i] <= 90 THEN cs[i] + 32 ELSE cs[i] ]

\* String.prototype.includes: needle occurs in hay as a contiguous run.
includes(hay, needle) ==
  \E i \in 0..(Len(hay) - Len(needle)) :
    \A j \in 1..Len(needle) : hay[i + j] = needle[j]

\* The < operator on two strings: lexicographic on code units.
StringLess(a, b) ==
  \E k \in 1..Len(b) :
    /\ \A j \in 1..(k - 1) : j <= Len(a) /\ a[j] = b[j]
    /\ (k > Len(a) \/ a[k] < b[k])

(***************************************************************************)
(* Values read from a record by a runtime-chosen key                       *)
(***************************************************************************)
\* Keys of Incident by the type of their value.  The optional keys hold a
\* string, and responseTime a number, where the record has them.
OptionalKeys == {"reporterName", "reporterPhone", "subcounty", "actionsTaken"}

OptionalNumberKeys == {"responseTime"}

StringKeys ==
  {"_id", "incidentType", "county", "location", "priority", "status", "description"}
    \cup OptionalKeys

NumberKeys == {"incidentDate", "_creationTime", "reportedDate"}

BooleanKeys == {"isVerified", "isAnonymous"}

ObjectKeys == {"casualties", "livestockStolen"}

ArrayKeys == {"respondingAgencies"}

StringValue(s) == [type |-> "string", chars |-> Chars(s), num |-> 0]

CharsValue(cs) == [type |-> "string", chars |-> cs, num |-> 0]

NumberValue(n) == [type |-> "number", chars |-> << >>, num |-> n]

\* A boolean, with the number it converts to under < and >.
BooleanValue(b) == [type |-> "boolean", chars |-> << >>, num |-> IF b THEN 1 ELSE 0]

\* A plain object, with the string it converts to under < and >:
\* "[object Object]", whatever its properties.
ObjectValue ==
  [ type |-> "object",
    chars |-> <<91, 111, 98, 106, 101, 99, 116, 32, 79, 98, 106, 101, 99, 116, 93>>,
    num |-> 0 ]

RECURSIVE Join(_)
\* Array.prototype.join of an array of strings: the elements with a comma
\* between them.
Join(strings) ==
  IF Len(strings) = 0 THEN << >>
  ELSE IF Len(strings) = 1 THEN Chars(strings[1])
  ELSE Chars(strings[1]) \o << 44 >> \o Join(Tail(strings))

\* An array of strings, with the string it converts to under < and >: its
\* elements joined.
ArrayValue(strings) == [type |-> "object", chars |-> Join(strings), num |-> 0]

Undefined == [type |-> "undefined", chars |-> << >>, num |-> 0]

\* incident[field]; an optional key the record lacks, and a name that is no
\* key of Incident (the computed keys), read as undefined.
Get(incident, field) ==
  IF field \in OptionalKeys
    THEN IF incident[field].defined THEN StringValue(incident[field].value) ELSE Undefined
  ELSE IF field \in OptionalNumberKeys
    THEN IF incident[field].defined THEN NumberValue(incident[field].value) ELSE Undefined
  ELSE IF field \in StringKeys THEN StringValue(incident[field])
  ELSE IF field \in NumberKeys THEN NumberValue(incident[field])
  ELSE IF field \in BooleanKeys THEN BooleanValue(incident[field])
  ELSE IF field \in ObjectKeys THEN ObjectValue
  ELSE IF field \in ArrayKeys THEN ArrayValue(incident[field])
  ELSE Undefined

\* x < y: two strings (an object converts to one) by code units, two numbers
\* (a boolean converts to one) by value; undefined converts to NaN, so false.
Less(x, y) ==
  IF x.type \in {"string", "object"} /\ y.type \in {"string", "object"}
    THEN StringLess(x.chars, y.chars)
  ELSE IF x.type \in {"number", "boolean"} /\ y.type \in {"number", "boolean"}
    THEN x.num < y.num
  ELSE FALSE

(***************************************************************************)
(* The filter and sort pipeline (filteredAndSortedIncidents)               *)
(***************************************************************************)
\* An array value, and the value undefined where an array is expected.
Array(rows) == [defined |-> TRUE, rows |-> rows]

NotLoaded == [defined |-> FALSE, rows |-> << >>]

\* Variant: the query result used without the "|| []" default.
incidents_NoDefault == queryResult

\* IncidentsList: useQuery(...) || []; IncidentsTable: the incidents prop.
incidents == IF queryResult.defined THEN queryResult ELSE Array(<< >>)

\* The four filter fields as one argument.
FilterState ==
  [ searchTerm |-> searchTerm, statusFilter |-> statusFilter,
    priorityFilter |-> priorityFilter, countyFilter |-> countyFilter ]

\* field.toLowerCase().includes(term.toLowerCase())
fieldIncludes(incident, field, term) ==
  includes(toLowerCase(Chars(incident[field])), toLowerCase(Chars(term)))

\* Variant: the search of IncidentsList without the _id test.
ListMatchesSearch_NoId(incident, term) ==
  \/ term = ""
  \/ fieldIncludes(incident, "description", term)
  \/ fieldIncludes(incident, "location", term)
  \/ fieldIncludes(incident, "county", term)

ListMatchesSearch(incident, term) ==
  \/ term = ""
  \/ fieldIncludes(incident, "description", term)
  \/ fieldIncludes(incident, "location", term)
  \/ fieldIncludes(incident, "county", term)
  \/ fieldIncludes(incident, "_id", term)

TableMatchesSearch(incident, term) ==
  \/ term = ""
  \/ fieldIncludes(incident, "description", term)
  \/ fieldIncludes(incident, "location", term)
  \/ fieldIncludes(incident, "county", term)

\* Variant: the status test without the empty-filter case.
matchesStatus_NoEmpty(incident, f) == incident.status = f

matchesStatus(incident, f) == f = "" \/ incident.status = f

matchesPriority(incident, f) == f = "" \/ incident.priority = f

\* Variant: the filter callback accepts every county.
matchesCounty_Always(incident, f) == TRUE

matchesCounty(incident, f) == f = "" \/ incident.county = f

\* Variant: the filter callback that leaves the priority test out.
ListFilter_NoPriority(incident, F) ==
  /\ ListMatchesSearch(incident, F.searchTerm)
  /\ matchesStatus(incident, F.statusFilter)
  /\ matchesCounty(incident, F.countyFilter)

\* The callback given to filter() by IncidentsList.
ListFilter(incident, F) ==
  /\ ListMatchesSearch(incident, F.searchTerm)
  /\ matchesStatus(incident, F.statusFilter)
  /\ matchesPriority(incident, F.priorityFilter)
  /\ matchesCounty(incident, F.countyFilter)

\* The callback given to filter() by IncidentsTable (it has no county filter).
TableFilter(incident, F) ==
  /\ TableMatchesSearch(incident, F.searchTerm)
  /\ matchesStatus(incident, F.statusFilter)
  /\ matchesPriority(incident, F.priorityFilter)

\* Variant: the casualty total without the missing count.
totalCasualties_NoMissing(incident) ==
  incident.casualties.deaths + incident.casualties.injuries

totalCasualties(incident) ==
  incident.casualties.deaths + incident.casualties.injuries + incident.casualties.missing

totalLivestock(incident) ==
  incident.livestockStolen.cattle + incident.livestockStolen.goats
    + incident.livestockStolen.sheep + incident.livestockStolen.camels
    + incident.livestockStolen.other

\* aValue / bValue before the typeof test.
RawKey(incident, field) ==
  IF field = "totalCasualties" THEN NumberValue(totalCasualties(incident))
  ELSE IF field = "totalLivestock" THEN NumberValue(totalLivestock(incident))
  ELSE Get(incident, field)

\* Variant: string values compared as they are.
LowerIfString_Not(aValue, bValue) ==
  [ aValue |-> aValue, bValue |-> bValue, error |-> "none" ]

\* if (typeof aValue === "string") { aValue = aValue.toLowerCase();
\*                                   bValue = bValue.toLowerCase(); }
\* One test, on aValue, governs both: under it bValue.toLowerCase() throws a
\* TypeError when bValue is not a string, and where aValue is not a string
\* bValue stays as it is.
LowerIfString(aValue, bValue) ==
  IF aValue.type = "string"
    THEN IF bValue.type = "string"
           THEN [ aValue |-> CharsValue(toLowerCase(aValue.chars)),
                  bValue |-> CharsValue(toLowerCase(bValue.chars)),
                  error |-> "none" ]
           ELSE [ aValue |-> CharsValue(toLowerCase(aValue.chars)),
                  bValue |-> bValue,
                  error |-> "TypeError" ]
    ELSE [ aValue |-> aValue, bValue |-> bValue, error |-> "none" ]

\* Variant: the descending branch repeats the ascending one.
comparator_AscOnly(a, b, field, direction) ==
  LET v == LowerIfString(RawKey(a, field), RawKey(b, field))
  IN  [ error |-> v.error,
        value |-> IF v.error # "none" THEN 0
                  ELSE IF Less(v.aValue, v.bValue) THEN -1
                  ELSE IF Less(v.bValue, v.aValue) THEN 1 ELSE 0 ]

\* The callback given to sort(): it returns a negative, zero or positive
\* value, or throws (error is then "TypeError" and value has no meaning).
comparator(a, b, field, direction) ==
  LET v == LowerIfString(RawKey(a, field), RawKey(b, field))
  IN  [ error |-> v.error,
        value |-> IF v.error # "none" THEN 0
                  ELSE IF direction = "asc"
                    THEN IF Less(v.aValue, v.bValue) THEN -1
                         ELSE IF Less(v.bValue, v.aValue) THEN 1 ELSE 0
                    ELSE IF Less(v.bValue, v.aValue) THEN -1
                         ELSE IF Less(v.aValue, v.bValue) THEN 1 ELSE 0 ]

\* Array.prototype.sort as the engine of the build (V8, node 20) runs it on
\* an array of fewer than 64 elements: the leading run is detected and, where
\* strictly descending, reversed; every later element is then placed by a
\* binary search of the part already sorted.  Positions are counted from 0 as
\* in the engine: workArray[i] is s[i + 1].  The comparator is called only on
\* the pairs these steps visit, the later element of the array as a; a call
\* that throws ends the sort.

RECURSIVE RunLength(_, _, _, _, _)
\* The loop of CountAndMakeRun from position idx on: the length of the run
\* that starts the array, or the error of the comparator.
RunLength(s, idx, isDescending, field, direction) ==
  IF idx >= Len(s) THEN [ error |-> "none", runLength |-> Len(s) ]
  ELSE LET Step(order) ==
             IF order.error # "none" THEN [ error |-> order.error, runLength |-> 0 ]
             ELSE IF isDescending /\ order.value >= 0
               THEN [ error |-> "none", runLength |-> idx ]
             ELSE IF ~isDescending /\ order.value < 0
               THEN [ error |-> "none", runLength |-> idx ]
             ELSE RunLength(s, idx + 1, isDescending, field, direction)
       IN  Step(comparator(s[idx + 1], s[idx], field, direction))

\* The first n elements of s in reverse order, the rest as they are.
ReverseRange(s, n) ==
  [ i \in 1..Len(s) |-> IF i <= n THEN s[n + 1 - i] ELSE s[i] ]

\* The array with its leading run made ascending, and the length of that run.
CountAndMakeRun(s, field, direction) ==
  IF Len(s) < 2 THEN [ error |-> "none", rows |-> s, runLength |-> Len(s) ]
  ELSE LET Made(isDescending, run) ==
             IF run.error # "none"
               THEN [ error |-> run.error, rows |-> << >>, runLength |-> 0 ]
               ELSE [ error |-> "none",
                      rows |-> IF isDescending THEN ReverseRange(s, run.runLength) ELSE s,
                      runLength |-> run.runLength ]
           Counted(order) ==
             IF order.error # "none"
               THEN [ error |-> order.error, rows |-> << >>, runLength |-> 0 ]
               ELSE Made(order.value < 0,
                         RunLength(s, 2, order.value < 0, field, direction))
       IN  Counted(comparator(s[2], s[1], field, direction))

RECURSIVE BinarySearch(_, _, _, _, _, _)
\* The while loop of BinaryInsertionSort for the pivot x: the position where
\* x goes among the sorted elements s, or the error of the comparator.
BinarySearch(x, s, left, right, field, direction) ==
  IF left >= right THEN [ error |-> "none", left |-> left ]
  ELSE LET Narrowed(mid, order) ==
             IF order.error # "none" THEN [ error |-> order.error, left |-> 0 ]
             ELSE BinarySearch(x, s, IF order.value < 0 THEN left ELSE mid + 1,
                               IF order.value < 0 THEN mid ELSE right,
                               field, direction)
           Probe(mid) == Narrowed(mid, comparator(x, s[mid + 1], field, direction))
       IN  Probe(left + ((right - left) \div 2))

\* Variant: the shift keeps the element at the insertion point twice.
Insert_Duplicating(x, s, field, direction) ==
  LET Placed(found) ==
        IF found.error # "none"
          THEN [ error |-> found.error, rows |-> << >> ]
          ELSE [ error |-> "none",
                 rows |-> SubSeq(s, 1, IF found.left < Len(s) THEN found.left + 1 ELSE Len(s))
                            \o << x >> \o SubSeq(s, found.left + 1, Len(s)) ]
  IN  Placed(BinarySearch(x, s, 0, Len(s), field, direction))

\* One round of BinaryInsertionSort: the pivot x placed into the sorted
\* elements s at the position the binary search finds.
Insert(x, s, field, direction) ==
  LET Placed(found) ==
        IF found.error # "none"
          THEN [ error |-> found.error, rows |-> << >> ]
          ELSE [ error |-> "none",
                 rows |-> SubSeq(s, 1, found.left) \o << x >>
                            \o SubSeq(s, found.left + 1, Len(s)) ]
  IN  Placed(BinarySearch(x, s, 0, Len(s), field, direction))

RECURSIVE BinaryInsertionSort(_, _, _, _)
\* The elements of s from position start on placed one after another into
\* the sorted part before them.
BinaryInsertionSort(s, start, field, direction) ==
  IF start >= Len(s) THEN [ error |-> "none", rows |-> s ]
  ELSE LET Rest(placed) ==
             IF placed.error # "none" THEN placed
             ELSE BinaryInsertionSort(placed.rows \o SubSeq(s, start + 2, Len(s)),
                                      start + 1, field, direction)
       IN  Rest(Insert(s[start + 1], SubSeq(s, 1, start), field, direction))

\* Array.prototype.sort with the comparator: the arrangement the engine
\* returns, or the error the comparator threw.
sort(s, field, direction) ==
  IF Len(s) < 2 THEN [ error |-> "none", rows |-> s ]
  ELSE LET Sorted(run) ==
             IF run.error # "none" THEN [ error |-> run.error, rows |-> << >> ]
             ELSE BinaryInsertionSort(run.rows, run.runLength, field, direction)
       IN  Sorted(CountAndMakeRun(s, field, direction))

\* Array.prototype.filter with the component's callback.
ListFiltered(list, F) == SelectSeq(list, LAMBDA incident : ListFilter(incident, F))

TableFiltered(list, F) == SelectSeq(list, LAMBDA incident : TableFilter(incident, F))

\* incidents.filter(...) of the given component.
Filtered(comp, list, F) ==
  IF comp = "IncidentsList" THEN ListFiltered(list, F) ELSE TableFiltered(list, F)

\* Arrays are objects: an expression holds a reference, and two expressions
\* that hold one reference hold one array.  The store gives the elements of
\* the array each reference names: "incidents" names the array the component
\* got from useQuery or its props, "filtered" the one filter creates.
NewStore(list) == [ incidents |-> list, filtered |-> << >> ]

\* Variant: filter removes the failing elements from its receiver and
\* returns the receiver.
ArrayFilter_InPlace(store, receiver, comp, F) ==
  [ store |-> [store EXCEPT ![receiver] = Filtered(comp, store[receiver], F)],
    result |-> receiver ]

\* receiver.filter(callback): a new array holds the elements that pass, the
\* receiver stays as it is, and the reference of the new array is returned.
ArrayFilter(store, receiver, comp, F) ==
  [ store |-> [store EXCEPT !["filtered"] = Filtered(comp, store[receiver], F)],
    result |-> "filtered" ]

\* receiver.sort(comparator): the receiver itself is reordered and its
\* reference returned; the engine sorts a copy and writes it back at the
\* end, so a sort that throws leaves the receiver as it was.
ArraySort(store, receiver, field, direction) ==
  LET Written(sorted) ==
        [ store |-> IF sorted.error = "none"
                      THEN [store EXCEPT ![receiver] = sorted.rows]
                      ELSE store,
          result |-> receiver,
          error |-> sorted.error ]
  IN  Written(sort(store[receiver], field, direction))

\* incidents.filter(...).sort(...) of the given component on the store that
\* holds the input: sort is called on the array filter returned.
PipelineRun(comp, list, F, field, direction) ==
  LET Chained(afterFilter) ==
        ArraySort(afterFilter.store, afterFilter.result, field, direction)
  IN  Chained(ArrayFilter(NewStore(list), "incidents", comp, F))

\* The value of incidents.filter(...).sort(...): the elements of the array
\* the chain returns, or the error thrown.
Pipeline(comp, list, F, field, direction) ==
  LET Returned(run) ==
        [ error |-> run.error,
          rows |-> IF run.error = "none" THEN run.store[run.result] ELSE << >> ]
  IN  Returned(PipelineRun(comp, list, F, field, direction))

\* The elements of the input array after incidents.filter(...).sort(...).
InputAfterPipeline(comp, list, F, field, direction) ==
  PipelineRun(comp, list, F, field, direction).store.incidents

filteredAndSortedIncidents ==
  Pipeline(component, incidents.rows, FilterState, sortField, sortDirection)

\* The totals IncidentsTable computes for each row it displays.
RowTotals(rows) ==
  [ i \in 1..Len(rows) |->
      [ totalCasualties |-> totalCasualties(rows[i]),
        totalLivestock |-> totalLivestock(rows[i]) ] ]

\* One render of the list/table body from the given props and state: the
\* array filter returned, the rows shown and the error thrown.
\* Calling filter on undefined throws a TypeError, and so does a comparator
\* call that lower-cases an undefined bValue; a render that throws shows no
\* row.
RenderOf(comp, list, F, field, direction) ==
  IF ~list.defined
    THEN [ done |-> TRUE, filtered |-> << >>, rows |-> << >>, totals |-> << >>,
           error |-> "TypeError" ]
    ELSE LET Shown(filtered, rows, error) ==
               [ done |-> TRUE,
                 filtered |-> filtered,
                 rows |-> rows,
                 totals |-> IF comp = "IncidentsTable" THEN RowTotals(rows) ELSE << >>,
                 error |-> error ]
             Sorted(filtered, run) ==
               Shown(filtered,
                     IF run.error = "none" THEN run.store[run.result] ELSE << >>,
                     run.error)
             Chained(afterFilter) ==
               Sorted(afterFilter.store[afterFilter.result],
                      ArraySort(afterFilter.store, afterFilter.result, field, direction))
         IN  Chained(ArrayFilter(NewStore(list.rows), "incidents", comp, F))

Render == RenderOf(component, incidents, FilterState, sortField, sortDirection)

\* The render that follows a state change.
Rerender ==
  rendered' = RenderOf(component', incidents', FilterState', sortField', sortDirection')

NotRendered ==
  [ done |-> FALSE, filtered |-> << >>, rows |-> << >>, totals |-> << >>, error |-> "none" ]

(***************************************************************************)
(* The query collaborator of IncidentsList                                 *)
(***************************************************************************)
\* x || undefined for a string x: the empty string becomes no argument.
OrUndefined(x) ==
  IF x = "" THEN [ defined |-> FALSE, value |-> "" ] ELSE [ defined |-> TRUE, value |-> x ]

\* The arguments IncidentsList passes to api.incidents.getIncidents.
QueryArgs(F) ==
  [ county   |-> OrUndefined(F.countyFilter),
    status   |-> OrUndefined(F.statusFilter),
    priority |-> OrUndefined(F.priorityFilter) ]

\* getIncidents(args) on a record set: the records that have the county,
\* status and priority asked for, in the order of the record set.
getIncidents(records, args) ==
  LET asked(r) ==
        /\ args.county.defined => r.county = args.county.value
        /\ args.status.defined => r.status = args.status.value
        /\ args.priority.defined => r.priority = args.priority.value
  IN  SelectSeq(records, asked)

\* useQuery(api.incidents.getIncidents, args): undefined while the query for
\* these arguments loads, then the collaborator's list for them.
useQuery(records, args) == { NotLoaded, Array(getIncidents(records, args)) }

\* The value of useQuery in the render that follows a change of the filter
\* fields: with new arguments IncidentsList subscribes to another query and
\* gets its value; with the same arguments, and in IncidentsTable, whose
\* incidents are a prop, the value is as before.
Requery ==
  IF component' = "IncidentsList" /\ QueryArgs(FilterState') # QueryArgs(FilterState)
    THEN queryResult' \in useQuery(db', QueryArgs(FilterState'))
    ELSE queryResult' = queryResult

(***************************************************************************)
(* TrendsChart                                                             *)
(***************************************************************************)
Max2(a, b) == IF a >= b THEN a ELSE b

\* Variant: the resolved series is left out of the maximum.
PointMax_NoResolved(d) == Max2(d.incidents, d.critical)

\* Math.max(d.incidents, d.critical, d.resolved)
PointMax(d) == Max2(d.incidents, Max2(d.critical, d.resolved))

\* Math.max(...data.map(...)) of a non-empty list.
MaxOf(points) ==
  CHOOSE m \in { PointMax(points[i]) : i \in 1..Len(points) } :
    \A i \in 1..Len(points) : PointMax(points[i]) <= m

\* The early return of TrendsChart: !data || data.length === 0
NoTrendData(d) == (~d.present) \/ Len(d.points) = 0

\* const chartHeight = 200
chartHeight == 200

\* Variant: the bar height is computed whenever maxValue is not negative.
BarHeight_NoGuard(value, maxValue) ==
  IF maxValue >= 0
    THEN [ num |-> value * (chartHeight - 32), den |-> maxValue ]
    ELSE [ num |-> 0, den |-> 1 ]

\* maxValue > 0 ? (point.X / maxValue) * (chartHeight - 32) : 0, as the exact
\* fraction num / den of pixels.
BarHeight(value, maxValue) ==
  IF maxValue > 0
    THEN [ num |-> value * (chartHeight - 32), den |-> maxValue ]
    ELSE [ num |-> 0, den |-> 1 ]

\* The three bars drawn for one point.
Bars(point, maxValue) ==
  [ incidents |-> BarHeight(point.incidents, maxValue),
    critical  |-> BarHeight(point.critical, maxValue),
    resolved  |-> BarHeight(point.resolved, maxValue) ]

\* data.reduce((sum, d) => sum + d.<field>, 0)
RECURSIVE reduceSum(_, _)
reduceSum(points, field) ==
  IF points = << >> THEN 0
  ELSE reduceSum(SubSeq(points, 1, Len(points) - 1), field) + points[Len(points)][field]

\* Variant: the Critical total adds up the incidents series.
SummaryStats_CriticalFromIncidents(points) ==
  [ totalIncidents |-> reduceSum(points, "incidents"),
    totalCritical  |-> reduceSum(points, "incidents"),
    totalResolved  |-> reduceSum(points, "resolved") ]

\* The three totals of the summary strip under the chart.
SummaryStats(points) ==
  [ totalIncidents |-> reduceSum(points, "incidents"),
    totalCritical  |-> reduceSum(points, "critical"),
    totalResolved  |-> reduceSum(points, "resolved") ]

NoSummary == [ totalIncidents |-> 0, totalCritical |-> 0, totalResolved |-> 0 ]

\* One render of TrendsChart.  divisions counts the "/ maxValue" evaluated.
TrendsChart(d) ==
  IF NoTrendData(d)
    THEN [ view |-> "empty", maxComputed |-> FALSE, maxValue |-> 0, divisions |-> 0,
           bars |-> << >>, summary |-> NoSummary ]
    ELSE LET maxValue == MaxOf(d.points)
         IN  [ view |-> "chart", maxComputed |-> TRUE, maxValue |-> maxValue,
               divisions |-> IF maxValue > 0 THEN 3 * Len(d.points) ELSE 0,
               bars |-> [ i \in 1..Len(d.points) |-> Bars(d.points[i], maxValue) ],
               summary |-> SummaryStats(d.points) ]

ChartNotRendered ==
  [ view |-> "none", maxComputed |-> FALSE, maxValue |-> 0, divisions |-> 0,
    bars |-> << >>, summary |-> NoSummary ]

NoData == [present |-> FALSE, points |-> << >>]

(***************************************************************************)
(* MetricsAggregator (specification section 4.2, contracts A and B)        *)
(***************************************************************************)
\* The calendar day (UTC) an instant falls on.
dayOf(t) == t \div TicksPerDay

\* The positions of the records of a given priority (status).
WithPriority(records, priority) ==
  { i \in 1..Len(records) : records[i].priority = priority }

WithStatus(records, status) ==
  { i \in 1..Len(records) : records[i].status = status }

\* Contract A: summarize(records).
summarize(records) ==
  [ totalIncidents |-> Len(records),
    totalCritical  |-> Cardinality(WithPriority(records, "critical")),
    totalResolved  |-> Cardinality(WithStatus(records, "resolved")) ]

\* The positions of the records whose incident date falls on a day.
OnDay(records, day) ==
  { i \in 1..Len(records) : dayOf(records[i].incidentDate) = day }

\* The point of one calendar day.
TrendPoint(records, day) ==
  [ date      |-> day,
    incidents |-> Cardinality(OnDay(records, day)),
    critical  |-> Cardinality(OnDay(records, day) \cap WithPriority(records, "critical")),
    resolved  |-> Cardinality(OnDay(records, day) \cap WithStatus(records, "resolved")) ]

\* Variant: days without an incident are omitted.
bucketByDay_OmitEmptyDays(records, windowDays, now) ==
  IF windowDays <= 0
    THEN [ error |-> "InvalidWindow", points |-> << >> ]
    ELSE LET busy(p) == p.incidents > 0
         IN  [ error |-> "none",
               points |-> SelectSeq([ k \in 1..windowDays |->
                            TrendPoint(records, dayOf(now) - windowDays + k) ], busy) ]

\* Contract B: bucketByDay(records, windowDays), with "now" made an argument:
\* one point per day of the trailing window that ends on the day of now.
bucketByDay(records, windowDays, now) ==
  IF windowDays <= 0
    THEN [ error |-> "InvalidWindow", points |-> << >> ]
    ELSE [ error |-> "none",
           points |-> [ k \in 1..windowDays |->
                        TrendPoint(records, dayOf(now) - windowDays + k) ] ]

\* The aggregator before it is called on given arguments, and when unused.
AggregateOf(records, windowDays, now) ==
  [ state |-> "pending", records |-> records, windowDays |-> windowDays, now |-> now,
    error |-> "none", summarized |-> FALSE, summary |-> NoSummary ]

NoAggregate ==
  [ state |-> "none", records |-> << >>, windowDays |-> 0, now |-> 0,
    error |-> "none", summarized |-> FALSE, summary |-> NoSummary ]

(***************************************************************************)
(* Rows and details modal of IncidentsList: idle values                    *)
(***************************************************************************)
\* useState<any>(null)
Null == [ null |-> TRUE ]

HostIdle ==
  /\ selectedIncident = Null
  /\ showDetails = FALSE
  /\ calls = << >>

(***************************************************************************)
(* The pipeline and the chart applied to given inputs                      *)
(***************************************************************************)
Snapshots == { Array(l) : l \in IncidentLists }

ListedSnapshots == { Array(l) : l \in ListedLists }

InitApply ==
  /\ component \in {"IncidentsList", "IncidentsTable", "TrendsChart"}
  /\ db = << >>
  /\ rendered = NotRendered
  /\ chart = ChartNotRendered
  /\ HostIdle
  /\ IF component = "TrendsChart"
       THEN /\ \/ /\ data \in DataInputs
                  /\ aggregate = NoAggregate
               \/ /\ data = NoData
                  /\ \E r \in BucketedLists, w \in WindowInputs, n \in NowInputs :
                       aggregate = AggregateOf(r, w, n)
            /\ queryResult = NotLoaded
            /\ sortField = "incidentDate"
            /\ sortDirection = "desc"
            /\ searchTerm = ""
            /\ statusFilter = ""
            /\ priorityFilter = ""
            /\ countyFilter = ""
       ELSE /\ data = NoData
            /\ aggregate = NoAggregate
            /\ queryResult \in Snapshots \cup
                 (IF component = "IncidentsList" THEN {NotLoaded} ELSE {})
            /\ sortField \in HeadersOf(component)
            /\ sortDirection \in {"asc", "desc"}
            /\ searchTerm \in SearchInputs
            /\ statusFilter \in StatusInputs
            /\ priorityFilter \in PriorityInputs
            /\ countyFilter \in (IF component = "IncidentsList" THEN CountyInputs ELSE {""})

\* The component body runs once on its inputs.
ApplyPipeline ==
  /\ component \in {"IncidentsList", "IncidentsTable"}
  /\ ~rendered.done
  /\ rendered' = Render
  /\ queryResult' =
       IF queryResult.defined
         THEN Array(InputAfterPipeline(component, queryResult.rows, FilterState,
                                       sortField, sortDirection))
         ELSE queryResult
  /\ UNCHANGED << component, db, sortField, sortDirection, searchTerm,
                  statusFilter, priorityFilter, countyFilter, data, chart,
                  aggregate, hostVars >>

\* The producer of the data prop: bucketByDay is called once on the records;
\* its points become the data prop, its failure leaves the chart without data.
BucketByDay ==
  /\ component = "TrendsChart"
  /\ aggregate.state = "pending"
  /\ LET result == bucketByDay(aggregate.records, aggregate.windowDays, aggregate.now)
     IN  IF result.error = "none"
           THEN /\ aggregate' = [aggregate EXCEPT !.state = "done"]
                /\ data' = [present |-> TRUE, points |-> result.points]
           ELSE /\ aggregate' = [aggregate EXCEPT !.state = "failed", !.error = result.error]
                /\ data' = data
  /\ UNCHANGED << component, db, queryResult, sortField, sortDirection, searchTerm,
                  statusFilter, priorityFilter, countyFilter, rendered, chart,
                  hostVars >>

\* summarize is called once on the same records.
Summarize ==
  /\ component = "TrendsChart"
  /\ aggregate.state # "none"
  /\ ~aggregate.summarized
  /\ aggregate' = [aggregate EXCEPT !.summarized = TRUE,
                                    !.summary = summarize(aggregate.records)]
  /\ UNCHANGED << component, db, queryResult, sortField, sortDirection, searchTerm,
                  statusFilter, priorityFilter, countyFilter, data, rendered, chart,
                  hostVars >>

RenderChart ==
  /\ component = "TrendsChart"
  /\ aggregate.state \in {"none", "done"}
  /\ chart.view = "none"
  /\ chart' = TrendsChart(data)
  /\ UNCHANGED << component, db, queryResult, sortField, sortDirection, searchTerm,
                  statusFilter, priorityFilter, countyFilter, data, rendered,
                  aggregate, hostVars >>

NextApply == ApplyPipeline \/ BucketByDay \/ Summarize \/ RenderChart

SpecApply == InitApply /\ [][NextApply]_vars

(***************************************************************************)
(* The components as state machines: IncidentsList and IncidentsTable      *)
(***************************************************************************)
Headers == HeadersOf(component)

Init ==
  /\ component \in {"IncidentsList", "IncidentsTable"}
  /\ sortField = "incidentDate"
  /\ sortDirection = "desc"
  /\ searchTerm = ""
  /\ statusFilter = ""
  /\ priorityFilter = ""
  /\ countyFilter = ""
  /\ IF component = "IncidentsList"
       THEN /\ db \in ListedLists
            /\ queryResult \in useQuery(db, QueryArgs(FilterState))
       ELSE /\ db = << >>
            /\ queryResult \in ListedSnapshots
  /\ data = NoData
  /\ chart = ChartNotRendered
  /\ aggregate = NoAggregate
  /\ HostIdle
  /\ rendered = Render

\* Variant: a new field keeps the current direction.
handleSort_KeepDirection(field) ==
  IF sortField = field
    THEN /\ sortDirection' = (IF sortDirection = "asc" THEN "desc" ELSE "asc")
         /\ sortField' = sortField
    ELSE /\ sortField' = field
         /\ sortDirection' = sortDirection

\* The state change of handleSort(field).
handleSort(field) ==
  IF sortField = field
    THEN /\ sortDirection' = (IF sortDirection = "asc" THEN "desc" ELSE "asc")
         /\ sortField' = sortField
    ELSE /\ sortField' = field
         /\ sortDirection' = "desc"

\* A click on a column header.
HandleSort ==
  /\ \E field \in Headers : handleSort(field)
  /\ UNCHANGED << component, db, queryResult, searchTerm, statusFilter,
                  priorityFilter, countyFilter, data, chart,
                  aggregate, hostVars >>
  /\ Rerender

\* onChange of the search box.
SetSearchTerm ==
  /\ \E value \in SearchInputs : searchTerm' = value
  /\ UNCHANGED << component, db, queryResult, sortField, sortDirection, statusFilter,
                  priorityFilter, countyFilter, data, chart,
                  aggregate, hostVars >>
  /\ Rerender

\* onChange of the status select.
SetStatusFilter ==
  /\ \E value \in StatusInputs : statusFilter' = value
  /\ UNCHANGED << component, db, sortField, sortDirection, searchTerm,
                  priorityFilter, countyFilter, data, chart,
                  aggregate, hostVars >>
  /\ Requery
  /\ Rerender

\* onChange of the priority select.
SetPriorityFilter ==
  /\ \E value \in PriorityInputs : priorityFilter' = value
  /\ UNCHANGED << component, db, sortField, sortDirection, searchTerm,
                  statusFilter, countyFilter, data, chart,
                  aggregate, hostVars >>
  /\ Requery
  /\ Rerender

\* onChange of the county select (IncidentsList only).
SetCountyFilter ==
  /\ component = "IncidentsList"
  /\ \E value \in CountyInputs : countyFilter' = value
  /\ UNCHANGED << component, db, sortField, sortDirection, searchTerm,
                  statusFilter, priorityFilter, data, chart,
                  aggregate, hostVars >>
  /\ Requery
  /\ Rerender

\* onClick of the Clear Filters button (IncidentsList only): the four
\* setters.  The button is rendered whatever the state.
ClearFiltersClick ==
  /\ component = "IncidentsList"
  /\ searchTerm' = ""
  /\ countyFilter' = ""
  /\ statusFilter' = ""
  /\ priorityFilter' = ""
  /\ UNCHANGED << component, db, sortField, sortDirection, data, chart,
                  aggregate, hostVars >>

\* Variant: the button leaves the county filter as it is.
ClearFilters_KeepsCounty ==
  /\ component = "IncidentsList"
  /\ searchTerm' = ""
  /\ statusFilter' = ""
  /\ priorityFilter' = ""
  /\ UNCHANGED << component, db, sortField, sortDirection, countyFilter,
                  data, chart, aggregate, hostVars >>
  /\ Requery
  /\ Rerender

\* A click on Clear Filters and the render that follows it.
ClearFilters ==
  /\ ClearFiltersClick
  /\ Requery
  /\ Rerender

\* The records of the collaborator change, or its query ends loading, and it
\* delivers its list for the current arguments to IncidentsList; the parent
\* passes a new incidents prop to IncidentsTable.
QueryUpdate ==
  /\ IF component = "IncidentsList"
       THEN /\ db' \in ListedLists
            /\ queryResult' = Array(getIncidents(db', QueryArgs(FilterState)))
       ELSE /\ db' = db
            /\ queryResult' \in ListedSnapshots
  /\ UNCHANGED << component, sortField, sortDirection, searchTerm, statusFilter,
                  priorityFilter, countyFilter, data, chart,
                  aggregate, hostVars >>
  /\ Rerender

Next ==
  \/ HandleSort
  \/ SetSearchTerm
  \/ SetStatusFilter
  \/ SetPriorityFilter
  \/ SetCountyFilter
  \/ ClearFilters
  \/ QueryUpdate

Spec == Init /\ [][Next]_vars

(***************************************************************************)
(* IncidentsList: rows, details modal and mutations                        *)
(***************************************************************************)
\* The options of the status select of a row.
StatusOptions == {"reported", "verified", "investigating", "resolved", "closed"}

\* x || "N/A" for an optional string x.
OrNA(x) == IF x.defined /\ x.value # "" THEN x.value ELSE "N/A"

\* Variant: a reporter name or phone that is present is shown.
ReporterInformation_ShowsPresent(incident) ==
  (IF incident.isAnonymous /\ ~incident.reporterName.defined
     THEN << [label |-> "", text |-> "Anonymous Report"] >>
     ELSE << [label |-> "Name:", text |-> OrNA(incident.reporterName)],
             [label |-> "Phone:", text |-> OrNA(incident.reporterPhone)] >>)
  \o << [label |-> "Verified:",
         text |-> IF incident.isVerified THEN "Verified" ELSE "Unverified"] >>

\* The lines under "Reporter Information" in the details modal.
ReporterInformation(incident) ==
  (IF incident.isAnonymous
     THEN << [label |-> "", text |-> "Anonymous Report"] >>
     ELSE << [label |-> "Name:", text |-> OrNA(incident.reporterName)],
             [label |-> "Phone:", text |-> OrNA(incident.reporterPhone)] >>)
  \o << [label |-> "Verified:",
         text |-> IF incident.isVerified THEN "Verified" ELSE "Unverified"] >>

\* What IncidentDetailsModal shows of the incident it is given.
IncidentDetailsModal(incident) ==
  [ open |-> TRUE, incidentId |-> incident._id, status |-> incident.status,
    priority |-> incident.priority, reporter |-> ReporterInformation(incident) ]

NoModal ==
  [ open |-> FALSE, incidentId |-> "", status |-> "", priority |-> "", reporter |-> << >> ]

\* Variant: the modal looks the selected incident up in the current
\* query result and shows that record when it is there.
Modal_Live ==
  IF showDetails /\ selectedIncident # Null
    THEN LET current == { i \in 1..Len(incidents.rows) :
                            incidents.rows[i]._id = selectedIncident._id }
         IN  IF current = {}
               THEN IncidentDetailsModal(selectedIncident)
               ELSE IncidentDetailsModal(incidents.rows[CHOOSE i \in current : TRUE])
    ELSE NoModal

\* {showDetails && selectedIncident && <IncidentDetailsModal .../>}
Modal ==
  IF showDetails /\ selectedIncident # Null
    THEN IncidentDetailsModal(selectedIncident)
    ELSE NoModal

\* A toast shown by sonner.
Toast(type, message) == [ type |-> type, message |-> message ]

\* A mutation call that has been issued and has not settled.
MutationCall(mutation, incidentId, arg) ==
  [ mutation |-> mutation, incidentId |-> incidentId, arg |-> arg,
    state |-> "pending", reported |-> << >> ]

\* handleStatusUpdate up to its await: the call of updateIncidentStatus.
handleStatusUpdate(incidentId, newStatus) ==
  MutationCall("updateIncidentStatus", incidentId, newStatus)

\* handleVerification up to its await: the call of verifyIncident.
handleVerification(incidentId, verified) ==
  MutationCall("verifyIncident", incidentId, verified)

\* Variant: the catch branch shows nothing.
AfterAwait_SilentCatch(call, ok) ==
  IF call.mutation = "updateIncidentStatus"
    THEN IF ok THEN << Toast("success", "Status updated successfully") >>
               ELSE << >>
    ELSE IF ok THEN << Toast("success", IF call.arg THEN "Incident verified successfully"
                                                    ELSE "Incident unverified successfully") >>
               ELSE << >>

\* The rest of handleStatusUpdate / handleVerification once the awaited call
\* has resolved (ok) or rejected: the toasts it shows.
AfterAwait(call, ok) ==
  IF call.mutation = "updateIncidentStatus"
    THEN IF ok THEN << Toast("success", "Status updated successfully") >>
               ELSE << Toast("error", "Failed to update status") >>
    ELSE IF ok THEN << Toast("success", IF call.arg THEN "Incident verified successfully"
                                                    ELSE "Incident unverified successfully") >>
               ELSE << Toast("error", "Failed to update verification") >>

\* Rank of a status in the workflow reported .. closed.
StatusRank(status) ==
  CASE status = "reported" -> 1
    [] status = "verified" -> 2
    [] status = "investigating" -> 3
    [] status = "resolved" -> 4
    [] status = "closed" -> 5
    [] OTHER -> 0

\* Variant: the select only passes a status later in the workflow on.
StatusOnChange_ForwardOnly(incident, value) ==
  IF StatusRank(value) > StatusRank(incident.status)
    THEN << handleStatusUpdate(incident._id, value) >>
    ELSE << >>

\* onChange of the status select of a row: the calls it issues.
StatusOnChange(incident, value) == << handleStatusUpdate(incident._id, value) >>

\* Variant: the button negates the value it requested last for the incident.
VerifyOnClick_TogglesRequested(incident) ==
  LET earlier == { k \in 1..Len(calls) :
                     /\ calls[k].mutation = "verifyIncident"
                     /\ calls[k].incidentId = incident._id }
  IN  IF earlier = {}
        THEN << handleVerification(incident._id, ~incident.isVerified) >>
        ELSE LET last == CHOOSE k \in earlier : \A j \in earlier : j <= k
             IN  << handleVerification(incident._id, ~calls[last].arg) >>

\* onClick of the verify button of a row: the calls it issues.
VerifyOnClick(incident) == << handleVerification(incident._id, ~incident.isVerified) >>

\* Lists of at most MaxHostRows records of the pool, without repetition.
HostSnapshots ==
  { Array(s) : s \in UNION { { t \in [1..n -> IncidentPool] :
                                  \A i, j \in 1..n : i # j => t[i] # t[j] }
                              : n \in 0..MaxHostRows } }

InitHost ==
  /\ component = "IncidentsList"
  /\ queryResult \in HostSnapshots
  /\ db = queryResult.rows
  /\ sortField = "incidentDate"
  /\ sortDirection = "desc"
  /\ searchTerm = ""
  /\ statusFilter = ""
  /\ priorityFilter = ""
  /\ countyFilter = ""
  /\ data = NoData
  /\ chart = ChartNotRendered
  /\ aggregate = NoAggregate
  /\ HostIdle
  /\ rendered = Render

\* Everything but the rows' and the modal's state.
listVars == << component, db, queryResult, sortField, sortDirection, searchTerm,
              statusFilter, priorityFilter, countyFilter, data, rendered, chart,
              aggregate >>

\* onClick of row i.
RowClickOn(i) ==
  /\ component = "IncidentsList"
  /\ i \in 1..Len(rendered.rows)
  /\ selectedIncident' = rendered.rows[i]
  /\ showDetails' = TRUE
  /\ UNCHANGED << listVars, calls >>

RowClick == \E i \in 1..Len(rendered.rows) : RowClickOn(i)

\* Variant: onClose hides the modal and keeps the selection.
CloseModal_KeepsSelection ==
  /\ component = "IncidentsList"
  /\ Modal.open
  /\ showDetails' = FALSE
  /\ selectedIncident' = selectedIncident
  /\ UNCHANGED << listVars, calls >>

\* onClose of the modal.
CloseModal ==
  /\ component = "IncidentsList"
  /\ Modal.open
  /\ showDetails' = FALSE
  /\ selectedIncident' = Null
  /\ UNCHANGED << listVars, calls >>

\* The status select of row i is set to value.
StatusSelectOn(i, value) ==
  /\ component = "IncidentsList"
  /\ i \in 1..Len(rendered.rows)
  /\ Len(calls) < MaxCalls
  /\ calls' = calls \o StatusOnChange(rendered.rows[i], value)
  /\ UNCHANGED << listVars, selectedIncident, showDetails >>

StatusSelect ==
  \E i \in 1..Len(rendered.rows), value \in StatusOptions : StatusSelectOn(i, value)

\* The verify button of row i is clicked.
VerifyClickOn(i) ==
  /\ component = "IncidentsList"
  /\ i \in 1..Len(rendered.rows)
  /\ Len(calls) < MaxCalls
  /\ calls' = calls \o VerifyOnClick(rendered.rows[i])
  /\ UNCHANGED << listVars, selectedIncident, showDetails >>

VerifyClick == \E i \in 1..Len(rendered.rows) : VerifyClickOn(i)

\* The awaited call k settles and its handler runs to its end.
Settle(k, ok) ==
  /\ k \in 1..Len(calls)
  /\ calls[k].state = "pending"
  /\ calls' = [calls EXCEPT ![k].state = IF ok THEN "resolved" ELSE "rejected",
                            ![k].reported = calls[k].reported \o AfterAwait(calls[k], ok)]
  /\ UNCHANGED << listVars, selectedIncident, showDetails >>

CallResolves == \E k \in 1..Len(calls) : Settle(k, TRUE)

CallRejects == \E k \in 1..Len(calls) : Settle(k, FALSE)

NextHost ==
  RowClick \/ CloseModal \/ StatusSelect \/ VerifyClick \/ CallResolves \/ CallRejects

SpecHost == InitHost /\ [][NextHost]_vars

\* A record as the database holds it after updateIncidentStatus to resolved
\* and verifyIncident to the opposite flag have been applied to it.
AfterUpdates(incident) ==
  [ incident EXCEPT !.status = "resolved", !.isVerified = ~incident.isVerified ]

\* The records the collaborator may hold while the modal is in use: two of
\* the pool, and P1 as it is after its updates.
RefreshPool == { P1, P2, AfterUpdates(P1) }

\* Record sets the collaborator may hold later: lists of at most MaxHostRows
\* records with distinct _id.
RefreshSnapshots ==
  UNION { { t \in [1..n -> RefreshPool] :
              \A i, j \in 1..n : i # j => t[i]._id # t[j]._id }
          : n \in 0..MaxHostRows }

\* The records of the collaborator change, or its query ends loading, and it
\* delivers its list for the current arguments to IncidentsList while the
\* rows and the modal are in use.
SnapshotRefresh ==
  /\ component = "IncidentsList"
  /\ db' \in RefreshSnapshots
  /\ queryResult' = Array(getIncidents(db', QueryArgs(FilterState)))
  /\ UNCHANGED << component, sortField, sortDirection, searchTerm, statusFilter,
                  priorityFilter, countyFilter, data, chart,
                  aggregate, hostVars >>
  /\ Rerender

\* IncidentsList with its filters, its sort state and its details modal.
NextModal ==
  \/ HandleSort
  \/ SetSearchTerm
  \/ SetStatusFilter
  \/ SetPriorityFilter
  \/ SetCountyFilter
  \/ ClearFilters
  \/ SnapshotRefresh
  \/ RowClick
  \/ CloseModal

\* IncidentsList mounted on records of the refresh pool.
InitModal ==
  /\ InitHost
  /\ db \in RefreshSnapshots

SpecModal == InitModal /\ [][NextModal]_vars

(***************************************************************************)
(* Properties                                                              *)
(***************************************************************************)
\* The lower-case form of one code unit.
LowerUnit(c) == IF c \in 65..90 THEN c + 32 ELSE c

\* term occurs in the field of the record, letter case ignored.
Occurs(incident, field, term) ==
  LET hay == Chars(incident[field])
      needle == Chars(term)
  IN  \E start \in 1..(Len(hay) - Len(needle) + 1) :
        \A j \in 1..Len(needle) :
          LowerUnit(hay[start + j - 1]) = LowerUnit(needle[j])

OccursInAny(incident, fields, term) == \E f \in fields : Occurs(incident, f, term)

\* The record satisfies the status, priority and county selections.
PassesSelections(incident) ==
  /\ statusFilter = "" \/ incident.status = statusFilter
  /\ priorityFilter = "" \/ incident.priority = priorityFilter
  /\ countyFilter = "" \/ incident.county = countyFilter

Input == incidents.rows

InputRecords == { Input[i] : i \in 1..Len(Input) }

Shown == { rendered.rows[i] : i \in 1..Len(rendered.rows) }

\* The records the filter let through.
Passed == { rendered.filtered[i] : i \in 1..Len(rendered.filtered) }

FourFields == {"description", "location", "county", "_id"}

ThreeFields == {"description", "location", "county"}

\* C1 as stated: in IncidentsList and in IncidentsTable alike, a record that
\* has the non-empty search term (letter case ignored) in its description,
\* location, county or _id passes the search constraint, so the filter lets
\* it through whenever it also satisfies the other selections.
C1_SearchFourFieldsBoth ==
  rendered.done =>
    \A r \in InputRecords :
      (searchTerm # "" /\ OccursInAny(r, FourFields, searchTerm) /\ PassesSelections(r))
        => r \in Passed

\* C1 amended: the four-field search is that of IncidentsList; IncidentsTable
\* searches description, location and county only, so there a record that has
\* the term in one of these three passes and a record that has it in none of
\* them (even if it has it in _id) does not.
C1_SearchFields ==
  rendered.done =>
    \A r \in InputRecords :
      (searchTerm # "" /\ PassesSelections(r)) =>
        IF component = "IncidentsList"
          THEN OccursInAny(r, FourFields, searchTerm) => r \in Passed
          ELSE OccursInAny(r, ThreeFields, searchTerm) <=> r \in Passed

\* IncidentsList shows a record that has the term in its _id only.
C1_Witness ==
  /\ rendered.done
  /\ component = "IncidentsList"
  /\ searchTerm = "K2"
  /\ \E r \in Shown :
       /\ Occurs(r, "_id", searchTerm)
       /\ ~OccursInAny(r, ThreeFields, searchTerm)

\* The search constraint of the component at hand.
PassesSearch(incident) ==
  \/ searchTerm = ""
  \/ OccursInAny(incident,
                 IF component = "IncidentsList" THEN FourFields ELSE ThreeFields,
                 searchTerm)

\* The filter state with one field replaced.
WithFilter(name, value) == [FilterState EXCEPT ![name] = value]

FilterInputs(name) ==
  CASE name = "searchTerm" -> SearchInputs
    [] name = "statusFilter" -> StatusInputs
    [] name = "priorityFilter" -> PriorityInputs
    [] name = "countyFilter" -> IF component = "IncidentsList" THEN CountyInputs ELSE {""}

\* C2: a record is in the filtered output iff it passes the search, status,
\* priority and county constraints together; and making an empty constraint
\* non-empty, the others unchanged, never yields more records.
C2_AndSemantics ==
  rendered.done =>
    /\ \A r \in InputRecords :
         r \in Passed <=> (PassesSearch(r) /\ PassesSelections(r))
    /\ \A name \in {"searchTerm", "statusFilter", "priorityFilter", "countyFilter"} :
         FilterState[name] = "" =>
           \A value \in FilterInputs(name) :
             Len(Filtered(component, Input, WithFilter(name, value)))
               <= Len(rendered.filtered)

\* Two constraints are set; one record passes both and is shown, another
\* passes the status constraint only and is not shown.
C2_Witness ==
  /\ rendered.done
  /\ statusFilter = "resolved"
  /\ priorityFilter = "critical"
  /\ Shown # {}
  /\ \E r \in InputRecords :
       r.status = statusFilter /\ r.priority # priorityFilter /\ r \notin Shown

\* Number of positions of the sequence that hold the record.
Occurrences(seq, r) == Cardinality({ i \in 1..Len(seq) : seq[i] = r })

\* C3: every shown record is a record of the input, no record of the input
\* is shown more than once, and nothing else is shown.
C3_OutputDrawnFromInput ==
  rendered.done =>
    /\ Shown \subseteq InputRecords
    /\ \A r \in InputRecords : Occurrences(rendered.rows, r) <= 1
    /\ Len(rendered.rows) <= Len(Input)

\* Both records of the input are shown, in the other order.
C3_Witness ==
  /\ rendered.done
  /\ Len(Input) = 2
  /\ Len(rendered.rows) = 2
  /\ rendered.rows[1] = Input[2]
  /\ rendered.rows[2] = Input[1]

NoConstraint ==
  searchTerm = "" /\ statusFilter = "" /\ priorityFilter = "" /\ countyFilter = ""

\* C4: with all four filter fields empty every input record is shown
\* exactly once, whatever the sort field and direction.
C4_EmptyFilterKeepsAll ==
  (rendered.done /\ NoConstraint) =>
    /\ Len(rendered.rows) = Len(Input)
    /\ \A r \in InputRecords : Occurrences(rendered.rows, r) = 1

\* No constraint, three records, none shown where the input has it.
C4_Witness ==
  /\ rendered.done
  /\ NoConstraint
  /\ queryResult.defined
  /\ Len(Input) = 3
  /\ rendered.rows = << Input[3], Input[1], Input[2] >>

\* a <= b in the lexicographic order of code units.
LexLeq(a, b) ==
  LET n == IF Len(a) <= Len(b) THEN Len(a) ELSE Len(b)
      diff == { i \in 1..n : a[i] # b[i] }
  IN  IF diff = {} THEN Len(a) <= Len(b)
      ELSE LET k == CHOOSE i \in diff : \A j \in diff : i <= j
           IN  a[k] < b[k]

\* The record has a value under the field.
HasValue(incident, field) == field \in OptionalKeys => incident[field].defined

\* The lower-cased value of a string field of the record.
Lowered(incident, field) ==
  LET cs == Chars(IF field \in OptionalKeys THEN incident[field].value ELSE incident[field])
  IN  [ i \in 1..Len(cs) |-> LowerUnit(cs[i]) ]

AdjacentPairs == 1..(Len(rendered.rows) - 1)

\* C5: with a string-valued sort field the sort ends without an error and
\* the shown records are ordered by the lower-cased value of the field,
\* non-decreasing when ascending and non-increasing when descending.
C5_StringSortIgnoresCase ==
  (rendered.done /\ sortField \in StringKeys) =>
    /\ rendered.error = "none"
    /\ \A i \in AdjacentPairs :
         (HasValue(rendered.rows[i], sortField) /\ HasValue(rendered.rows[i + 1], sortField)) =>
           IF sortDirection = "asc"
             THEN LexLeq(Lowered(rendered.rows[i], sortField),
                         Lowered(rendered.rows[i + 1], sortField))
             ELSE LexLeq(Lowered(rendered.rows[i + 1], sortField),
                         Lowered(rendered.rows[i], sortField))

\* Locations "Kapedo" and "baragoi", given in this order, sorted ascending
\* by location: baragoi comes first, though "K" precedes "b" as stored.
C5_Witness ==
  /\ rendered.done
  /\ sortField = "location"
  /\ sortDirection = "asc"
  /\ Len(Input) = 2
  /\ Input[1].location = "Kapedo"
  /\ Input[2].location = "baragoi"
  /\ rendered.rows = << Input[2], Input[1] >>

CasualtySum(r) == r.casualties.deaths + r.casualties.injuries + r.casualties.missing

LivestockSum(r) ==
  r.livestockStolen.cattle + r.livestockStolen.goats + r.livestockStolen.sheep
    + r.livestockStolen.camels + r.livestockStolen.other

\* The shown records are ordered by the number the operator gives.
OrderedBy(Total(_)) ==
  \A i \in AdjacentPairs :
    IF sortDirection = "asc"
      THEN Total(rendered.rows[i]) <= Total(rendered.rows[i + 1])
      ELSE Total(rendered.rows[i]) >= Total(rendered.rows[i + 1])

\* C6: the totalCasualties key of every record is deaths + injuries + missing
\* and the totalLivestock key is the sum of the five livestock counts; the
\* totals IncidentsTable displays in a row are these sums; sorting by either
\* key orders the shown records by the sum.
C6_DerivedTotals ==
  rendered.done =>
    /\ \A r \in InputRecords :
         /\ RawKey(r, "totalCasualties") = NumberValue(CasualtySum(r))
         /\ RawKey(r, "totalLivestock") = NumberValue(LivestockSum(r))
    /\ component = "IncidentsTable" =>
         /\ Len(rendered.totals) = Len(rendered.rows)
         /\ \A i \in 1..Len(rendered.rows) :
              /\ rendered.totals[i].totalCasualties = CasualtySum(rendered.rows[i])
              /\ rendered.totals[i].totalLivestock = LivestockSum(rendered.rows[i])
    /\ sortField = "totalCasualties" => OrderedBy(CasualtySum)
    /\ sortField = "totalLivestock" => OrderedBy(LivestockSum)

\* A record with deaths 2, injuries 1, missing 0 is shown before one with
\* total 5 that precedes it in the input, ascending by totalCasualties.
C6_Witness ==
  /\ rendered.done
  /\ component = "IncidentsTable"
  /\ sortField = "totalCasualties"
  /\ sortDirection = "asc"
  /\ Len(Input) = 2
  /\ CasualtySum(Input[1]) = 5
  /\ Input[2].casualties = [deaths |-> 2, injuries |-> 1, missing |-> 0]
  /\ rendered.rows = << Input[2], Input[1] >>
  /\ rendered.totals[1].totalCasualties = 3

Reverse(seq) == [ i \in 1..Len(seq) |-> seq[Len(seq) + 1 - i] ]

Opposite(direction) == IF direction = "asc" THEN "desc" ELSE "asc"

\* The value of the sort field as stored in the record; a record that lacks
\* the field, and a field that holds no scalar, give no value.
StoredKey(r, field) ==
  IF field \in StringKeys /\ HasValue(r, field)
    THEN [kind |-> "string",
          text |-> Chars(IF field \in OptionalKeys THEN r[field].value ELSE r[field]),
          number |-> 0]
  ELSE IF field \in NumberKeys THEN [kind |-> "number", text |-> << >>, number |-> r[field]]
  ELSE IF field \in BooleanKeys
    THEN [kind |-> "boolean", text |-> << >>, number |-> IF r[field] THEN 1 ELSE 0]
  ELSE IF field = "totalCasualties" THEN [kind |-> "number", text |-> << >>, number |-> CasualtySum(r)]
  ELSE IF field = "totalLivestock" THEN [kind |-> "number", text |-> << >>, number |-> LivestockSum(r)]
  ELSE [kind |-> "undefined", text |-> << >>, number |-> 0]

\* The value of the sort field as the comparator sees it: strings lower-cased.
ComparedKey(r, field) ==
  IF field \in StringKeys /\ HasValue(r, field)
    THEN [kind |-> "string", text |-> Lowered(r, field), number |-> 0]
    ELSE StoredKey(r, field)

\* Every input record has a value of the sort field, which is a sortable key.
AllHaveSortValue ==
  \A i \in 1..Len(Input) : StoredKey(Input[i], sortField).kind # "undefined"

PairwiseDistinct(Key(_, _)) ==
  \A i, j \in 1..Len(Input) : i # j => Key(Input[i], sortField) # Key(Input[j], sortField)

\* The output for the same input and filter state in the other direction.
OtherDirectionRows ==
  Pipeline(component, Input, FilterState, sortField, Opposite(sortDirection)).rows

\* C7 as stated: when the input records have pairwise distinct values of the
\* sort field, the output in one direction is the reverse of the output in
\* the other direction.
C7_FlipOnDistinctStoredKeys ==
  (rendered.done /\ PairwiseDistinct(StoredKey)) =>
    rendered.rows = Reverse(OtherDirectionRows)

\* C7 amended: every input record must have a value of the sort field and
\* the values must be pairwise distinct as compared, that is after
\* lower-casing strings; then each direction has an output and the output in
\* one direction is the reverse of the output in the other direction.
C7_FlipOnDistinctComparedKeys ==
  (rendered.done /\ AllHaveSortValue /\ PairwiseDistinct(ComparedKey)) =>
    /\ rendered.error = "none"
    /\ rendered.rows = Reverse(OtherDirectionRows)

\* Two shown records with distinct compared keys, sorted descending.
C7_Witness ==
  /\ rendered.done
  /\ sortDirection = "desc"
  /\ Len(rendered.rows) = 2
  /\ AllHaveSortValue
  /\ PairwiseDistinct(ComparedKey)
  /\ OtherDirectionRows = << rendered.rows[2], rendered.rows[1] >>

\* C8: the component starts with field incidentDate, descending; handleSort
\* of the current field flips the direction and keeps the field; handleSort
\* of another field sets the field and makes the direction descending.
C8_SortToggle ==
  /\ sortField = "incidentDate" /\ sortDirection = "desc"
  /\ [][ \A f \in ListHeaders \cup TableHeaders :
           handleSort(f) =>
             IF f = sortField
               THEN sortField' = sortField /\ sortDirection' = Opposite(sortDirection)
               ELSE sortField' = f /\ sortDirection' = "desc" ]_vars

\* A field other than the initial one is selected and the direction is
\* ascending: a new field was chosen and then chosen again.
C8_Witness ==
  /\ rendered.done
  /\ sortField = "location"
  /\ sortDirection = "asc"

\* C10: with an empty record list, a query result not yet available
\* included, the pipeline ends without an error and shows no record, for any
\* filter and sort state; with an empty or missing point list TrendsChart
\* shows its empty view, computes no maximum and divides by nothing.
C10_EmptyInputNoError ==
  /\ (rendered.done /\ ((~queryResult.defined) \/ Len(queryResult.rows) = 0)) =>
       /\ rendered.error = "none"
       /\ rendered.rows = << >>
  /\ (chart.view # "none" /\ ((~data.present) \/ Len(data.points) = 0)) =>
       /\ chart.view = "empty"
       /\ ~chart.maxComputed
       /\ chart.divisions = 0

\* IncidentsList rendered while the query result is not yet available, with
\* a search term set.
C10_Witness ==
  /\ rendered.done
  /\ component = "IncidentsList"
  /\ ~queryResult.defined
  /\ searchTerm # ""
  /\ rendered.rows = << >>
  /\ rendered.error = "none"

\* C12: computing the filtered and sorted view leaves the input list as it
\* was: the same records, with the same fields, in the same order.
C12_InputNotMutated ==
  [][ (~rendered.done /\ rendered'.done) => queryResult' = queryResult ]_vars

\* The view is in ascending date order while the input still holds the later
\* record first.
C12_Witness ==
  /\ rendered.done
  /\ sortField = "incidentDate"
  /\ sortDirection = "asc"
  /\ Len(queryResult.rows) = 2
  /\ queryResult.rows[1].incidentDate > queryResult.rows[2].incidentDate
  /\ rendered.rows = << queryResult.rows[2], queryResult.rows[1] >>

(***************************************************************************)
(* TrendsChart: scale and summary                                          *)
(***************************************************************************)
Series == {"incidents", "critical", "resolved"}

\* All the numbers of the points given to the chart.
ValuesOf(points) == { points[i][f] : i \in 1..Len(points), f \in Series }

\* The drawable height: the bar of a normalized magnitude 1.
Drawable == chartHeight - 32

\* C13: for a non-empty list of points every bar is a well-defined fraction
\* (its divisor is positive) whose normalized magnitude lies in [0,1]; when all
\* values are 0, maxValue is 0, every bar is 0 and nothing was divided.
C13_NormalizedWithinUnit ==
  chart.view = "chart" =>
    /\ \A i \in 1..Len(chart.bars) : \A f \in Series :
         LET b == chart.bars[i][f]
         IN  /\ b.den > 0
             /\ 0 <= b.num
             /\ b.num <= b.den * Drawable
    /\ chart.divisions > 0 => chart.maxValue > 0
    /\ ValuesOf(data.points) = {0} =>
         /\ chart.maxValue = 0
         /\ chart.divisions = 0
         /\ \A i \in 1..Len(chart.bars) : \A f \in Series : chart.bars[i][f].num = 0

C13_Witness ==
  /\ chart.view = "chart"
  /\ Len(data.points) = 2
  /\ ValuesOf(data.points) = {0}
  /\ chart.maxValue = 0
  /\ Len(chart.bars) = 2
  /\ chart.bars[2].critical = [ num |-> 0, den |-> 1 ]

\* C14 as stated: maxValue is always computed, it is the greatest of all the
\* values of all the points and 0 for an empty list, and when it is positive
\* some bar has the full drawable height.
C14_MaxValueZeroWhenEmpty ==
  chart.view \in {"chart", "empty"} =>
    /\ chart.maxComputed
    /\ data.present /\ Len(data.points) = 0 => chart.maxValue = 0
    /\ data.present /\ Len(data.points) > 0 =>
         /\ chart.maxValue \in ValuesOf(data.points)
         /\ \A v \in ValuesOf(data.points) : v <= chart.maxValue
    /\ chart.maxValue > 0 =>
         \E i \in 1..Len(chart.bars) : \E f \in Series :
           chart.bars[i][f].num = chart.bars[i][f].den * Drawable

\* C14: for a non-empty list maxValue is the greatest of all the values of all
\* the points, and when it is positive some bar has the full drawable height;
\* for an empty or missing list the chart returns before any maxValue exists.
C14_MaxValueOfNonEmpty ==
  /\ chart.view = "chart" =>
       /\ chart.maxComputed
       /\ chart.maxValue \in ValuesOf(data.points)
       /\ \A v \in ValuesOf(data.points) : v <= chart.maxValue
       /\ chart.maxValue > 0 =>
            \E i \in 1..Len(chart.bars) : \E f \in Series :
              chart.bars[i][f].num = chart.bars[i][f].den * Drawable
  /\ chart.view = "empty" =>
       /\ ~chart.maxComputed
       /\ chart.bars = << >>

C14_Witness ==
  /\ chart.view = "chart"
  /\ Len(data.points) = 2
  /\ data.points[1].incidents = 1 /\ data.points[1].critical = 0 /\ data.points[1].resolved = 1
  /\ data.points[2].incidents = 1 /\ data.points[2].critical = 1 /\ data.points[2].resolved = 2
  /\ chart.maxValue = 2
  /\ chart.bars[2].resolved.num = chart.bars[2].resolved.den * Drawable
  /\ chart.bars[1].incidents.num * 2 = chart.bars[1].incidents.den * Drawable

\* The units counted by one series over all the points: its total.
SeriesTotal(points, f) ==
  Cardinality({ u \in (1..Len(points)) \X (1..(MaxBucketed + MaxCount + 1)) :
                  u[2] <= points[u[1]][f] })

\* C15: summarize counts records (all of them, those of priority critical,
\* those of status resolved), and each total of the chart's summary strip is
\* the sum of that series over all the points the chart was given.
C15_SummaryCounts ==
  /\ aggregate.summarized =>
       /\ aggregate.summary.totalIncidents = Len(aggregate.records)
       /\ aggregate.summary.totalCritical =
            Cardinality({ i \in 1..Len(aggregate.records) :
                            aggregate.records[i].priority = "critical" })
       /\ aggregate.summary.totalResolved =
            Cardinality({ i \in 1..Len(aggregate.records) :
                            aggregate.records[i].status = "resolved" })
  /\ chart.view = "chart" =>
       /\ chart.summary.totalIncidents = SeriesTotal(data.points, "incidents")
       /\ chart.summary.totalCritical = SeriesTotal(data.points, "critical")
       /\ chart.summary.totalResolved = SeriesTotal(data.points, "resolved")

C15_Witness ==
  /\ aggregate.summarized
  /\ Len(aggregate.records) = 3
  /\ aggregate.records[1].priority = "critical"
  /\ aggregate.records[2].priority = "critical"
  /\ aggregate.records[3].priority = "low"
  /\ aggregate.summary.totalCritical = 2
  /\ CasualtySum(aggregate.records[1]) + CasualtySum(aggregate.records[2]) > 2
  /\ chart.view = "chart"
  /\ chart.summary.totalIncidents = 3
  /\ chart.summary.totalCritical = 2
  /\ chart.summary.totalResolved = 2

\* The days on which some record of the aggregator's input falls.
DaysWithIncident ==
  { dayOf(aggregate.records[i].incidentDate) : i \in 1..Len(aggregate.records) }

ZeroPoint(p) == p.incidents = 0 /\ p.critical = 0 /\ p.resolved = 0

\* C20: bucketByDay with a positive window returns one point per day of the
\* window: windowDays points on consecutive days, the last being the day of
\* now, a day without incident having a point of zeros; so for the empty list
\* every point is zero.  It fails only for a non-positive window.
C20_ZeroFillBucketing ==
  /\ aggregate.state = "failed" => aggregate.windowDays <= 0
  /\ aggregate.state = "done" =>
       /\ aggregate.windowDays > 0
       /\ Len(data.points) = aggregate.windowDays
       /\ data.points[Len(data.points)].date = dayOf(aggregate.now)
       /\ \A i \in 1..(Len(data.points) - 1) :
            data.points[i + 1].date = data.points[i].date + 1
       /\ \A i \in 1..Len(data.points) :
            data.points[i].date \notin DaysWithIncident => ZeroPoint(data.points[i])
       /\ aggregate.records = << >> =>
            \A i \in 1..Len(data.points) : ZeroPoint(data.points[i])

C20_Witness ==
  /\ aggregate.state = "done"
  /\ aggregate.records = << >>
  /\ aggregate.windowDays = 7
  /\ Len(data.points) = 7
  /\ \A i \in 1..7 : ZeroPoint(data.points[i])
  /\ data.points[7].date = dayOf(aggregate.now)
  /\ data.points[1].date = dayOf(aggregate.now) - 6

\* C19: what IncidentsList shows when the collaborator has already selected
\* the records by county, status and priority is what the client-side filter
\* and sort produce from the whole record set.
C19_PrefilterOnlyOptimizes ==
  (component = "IncidentsList" /\ rendered.done /\ queryResult.defined) =>
    RenderOf("IncidentsList",
             Array(getIncidents(queryResult.rows, QueryArgs(FilterState))),
             FilterState, sortField, sortDirection) = rendered

C19_Witness ==
  /\ component = "IncidentsList"
  /\ rendered.done
  /\ countyFilter = "Baringo"
  /\ searchTerm = ""
  /\ Len(queryResult.rows) = 2
  /\ queryResult.rows[1].county # "Baringo"
  /\ Len(getIncidents(queryResult.rows, QueryArgs(FilterState))) = 1
  /\ Len(rendered.rows) = 1
  /\ rendered.rows[1].county = "Baringo"

(***************************************************************************)
(* IncidentsList: details modal and mutations                              *)
(***************************************************************************)
ReporterLabels == { Modal.reporter[i].label : i \in 1..Len(Modal.reporter) }

ReporterTexts == { Modal.reporter[i].text : i \in 1..Len(Modal.reporter) }

\* The line of the modal's reporter section with a given label shows text.
ReporterLine(label, text) ==
  \E i \in 1..Len(Modal.reporter) :
    Modal.reporter[i] = [ label |-> label, text |-> text ]

\* What a name or phone line shows for an optional field.
ShownOrNA(x) == IF x.defined /\ x.value # "" THEN x.value ELSE "N/A"

\* C16: while the modal shows an anonymous record there is no Name and no
\* Phone line and neither value appears in the reporter section, present on
\* the record or not; for a record that is not anonymous both lines are
\* there, each with the value or "N/A".
C16_AnonymousHidesReporter ==
  Modal.open =>
    /\ selectedIncident.isAnonymous =>
         /\ "Name:" \notin ReporterLabels
         /\ "Phone:" \notin ReporterLabels
         /\ "N/A" \notin ReporterTexts
         /\ selectedIncident.reporterName.defined =>
              selectedIncident.reporterName.value \notin ReporterTexts
         /\ selectedIncident.reporterPhone.defined =>
              selectedIncident.reporterPhone.value \notin ReporterTexts
    /\ ~selectedIncident.isAnonymous =>
         /\ ReporterLine("Name:", ShownOrNA(selectedIncident.reporterName))
         /\ ReporterLine("Phone:", ShownOrNA(selectedIncident.reporterPhone))

C16_Witness ==
  /\ Modal.open
  /\ selectedIncident.isAnonymous
  /\ selectedIncident.reporterName = [defined |-> TRUE, value |-> "Mary"]
  /\ selectedIncident.reporterPhone = [defined |-> TRUE, value |-> "0711"]
  /\ Modal.reporter[1].text = "Anonymous Report"
  /\ Len(Modal.reporter) = 2

\* What has been reported for a call agrees with its state: nothing while it
\* is pending, one success once resolved, one failure once rejected.
ReportedOnce(call) ==
  CASE call.state = "pending"  -> call.reported = << >>
    [] call.state = "resolved" -> Len(call.reported) = 1 /\ call.reported[1].type = "success"
    [] call.state = "rejected" -> Len(call.reported) = 1 /\ call.reported[1].type = "error"
    [] OTHER -> FALSE

\* C17: every call that has settled has exactly one report, a success if it
\* resolved and a failure if it rejected, and a pending call has none; a step
\* changes the state and report of at most one call, which was pending, and
\* leaves every other call, settled or not, as it was.
C17_EachCallReportedOnce ==
  /\ [](\A k \in 1..Len(calls) : ReportedOnce(calls[k]))
  /\ [][ /\ Len(calls') >= Len(calls)
         /\ \A k \in 1..Len(calls) :
              calls'[k] # calls[k] =>
                /\ calls[k].state = "pending"
                /\ calls'[k].state \in {"resolved", "rejected"}
                /\ \A j \in 1..Len(calls) : j # k => calls'[j] = calls[j] ]_vars

C17_Witness ==
  /\ Len(calls) = 2
  /\ calls[1].mutation = "updateIncidentStatus"
  /\ calls[1].state = "rejected"
  /\ calls[1].reported = << [type |-> "error", message |-> "Failed to update status"] >>
  /\ calls[2].mutation = "verifyIncident"
  /\ calls[2].incidentId = calls[1].incidentId
  /\ calls[2].state = "resolved"
  /\ Len(calls[2].reported) = 1
  /\ calls[2].reported[1].type = "success"

\* The call of updateIncidentStatus for a record and a status, just issued.
StatusRequest(incident, status) ==
  [ mutation |-> "updateIncidentStatus", incidentId |-> incident._id, arg |-> status,
    state |-> "pending", reported |-> << >> ]

\* C18: for every row shown, whatever its status, and every one of the five
\* statuses, setting the row's select to that status is possible and issues
\* updateIncidentStatus with the row's _id and that status.
C18_AnyStatusAnyTime ==
  Len(calls) < MaxCalls =>
    \A i \in 1..Len(rendered.rows) :
      \A status \in {"reported", "verified", "investigating", "resolved", "closed"} :
        ENABLED ( /\ StatusSelectOn(i, status)
                  /\ calls' = Append(calls, StatusRequest(rendered.rows[i], status)) )

C18_Witness ==
  /\ Len(rendered.rows) = 1
  /\ rendered.rows[1].status = "resolved"
  /\ Len(calls) = 2
  /\ calls[1] = StatusRequest(rendered.rows[1], "reported")
  /\ calls[2] = StatusRequest(rendered.rows[1], "resolved")

(***************************************************************************)
(* IncidentsList: the details modal among filters, sort and refreshes      *)
(***************************************************************************)
\* The sort and filter state and the query result.
ListState ==
  << queryResult, sortField, sortDirection, searchTerm, statusFilter,
     priorityFilter, countyFilter >>

RowsShown == { rendered.rows[i] : i \in 1..Len(rendered.rows) }

\* C21: showDetails holds exactly when an incident is selected, and the modal
\* is displayed exactly then; a step that changes either of the two is a
\* click on a row shown (it selects that row and sets the flag) or the close
\* of the modal (it clears both), and it changes nothing of the list; a step
\* that changes the query result, the sort or a filter changes neither.
C21_ModalIffSelected ==
  /\ [](/\ showDetails <=> selectedIncident # Null
        /\ Modal.open <=> selectedIncident # Null)
  /\ [][ /\ ListState' # ListState =>
              /\ selectedIncident' = selectedIncident
              /\ showDetails' = showDetails
         /\ (selectedIncident' # selectedIncident \/ showDetails' # showDetails) =>
              /\ ListState' = ListState
              /\ \/ selectedIncident' \in RowsShown /\ showDetails'
                 \/ /\ showDetails /\ selectedIncident # Null
                    /\ selectedIncident' = Null /\ ~showDetails' ]_vars

C21_Witness ==
  /\ showDetails
  /\ Modal.open
  /\ selectedIncident = P1
  /\ searchTerm = "K2"
  /\ queryResult.defined
  /\ queryResult.rows = << P2 >>
  /\ rendered.rows = << P2 >>

\* C22: a step that delivers a new query result while the modal is open
\* leaves everything the modal shows as it was; what the modal shows is the
\* record as it was in the row when the row was clicked.
C22_ModalShowsCapturedRecord ==
  [][ /\ (Modal.open /\ queryResult' # queryResult) => Modal' = Modal
      /\ (selectedIncident' # selectedIncident /\ selectedIncident' # Null) =>
           \E r \in RowsShown :
             /\ selectedIncident' = r
             /\ Modal'.incidentId = r._id
             /\ Modal'.status = r.status
             /\ Modal'.reporter = ReporterInformation(r) ]_vars

C22_Witness ==
  /\ Modal.open
  /\ selectedIncident = P1
  /\ rendered.rows = << AfterUpdates(P1) >>
  /\ rendered.rows[1]._id = Modal.incidentId
  /\ Modal.status = "reported"
  /\ rendered.rows[1].status = "resolved"
  /\ rendered.rows[1].isVerified
  /\ Modal.reporter[Len(Modal.reporter)] = [ label |-> "Verified:", text |-> "Unverified" ]

(***************************************************************************)
(* IncidentsList: the verify button                                        *)
(***************************************************************************)
\* The verifyIncident calls issued so far.
VerifyCalls == { k \in 1..Len(calls) : calls[k].mutation = "verifyIncident" }

\* C23: with the snapshot as it is, every verifyIncident call asks for the
\* negation of isVerified of the row of its incident, so two clicks on the
\* same incident ask for the same value; the step of a click adds that one
\* call and changes neither the selection, the modal flag, the filters nor
\* the sort state.
C23_VerifyNegatesDisplayed ==
  /\ [](/\ \A k \in VerifyCalls :
             \E r \in RowsShown :
               r._id = calls[k].incidentId /\ calls[k].arg = ~r.isVerified
        /\ \A j, k \in VerifyCalls :
             calls[j].incidentId = calls[k].incidentId => calls[j].arg = calls[k].arg)
  /\ [][ (Len(calls') > Len(calls) /\ calls'[Len(calls')].mutation = "verifyIncident") =>
           /\ Len(calls') = Len(calls) + 1
           /\ \A k \in 1..Len(calls) : calls'[k] = calls[k]
           /\ selectedIncident' = selectedIncident
           /\ showDetails' = showDetails
           /\ Modal' = Modal
           /\ ListState' = ListState ]_vars

C23_Witness ==
  /\ Len(calls) = 2
  /\ rendered.rows = << P1 >>
  /\ calls[1].mutation = "verifyIncident"
  /\ calls[2].mutation = "verifyIncident"
  /\ calls[1].incidentId = "k1a"
  /\ calls[2].incidentId = "k1a"
  /\ calls[1].arg = TRUE
  /\ calls[2].arg = TRUE
  /\ calls[1].state = "resolved"
  /\ ~showDetails
  /\ selectedIncident = Null

(***************************************************************************)
(* IncidentsList: what the filter controls leave alone                     *)
(***************************************************************************)
SortState == << sortField, sortDirection >>

Selection == << selectedIncident, showDetails >>

\* C24: Clear Filters can be clicked in every state; its step empties the
\* search term and the county, status and priority filters and leaves the
\* sort field, the sort direction, the selected incident and the modal flag
\* as they were.  The step of one filter control leaves the sort state, the
\* selection and the three other filters as they were.
C24_FilterFrames ==
  /\ [](ENABLED ClearFiltersClick)
  /\ [][ /\ ClearFilters =>
              /\ searchTerm' = "" /\ countyFilter' = ""
              /\ statusFilter' = "" /\ priorityFilter' = ""
              /\ SortState' = SortState
              /\ Selection' = Selection
         /\ SetSearchTerm =>
              /\ SortState' = SortState /\ Selection' = Selection
              /\ << countyFilter, statusFilter, priorityFilter >>' =
                   << countyFilter, statusFilter, priorityFilter >>
         /\ SetCountyFilter =>
              /\ SortState' = SortState /\ Selection' = Selection
              /\ << searchTerm, statusFilter, priorityFilter >>' =
                   << searchTerm, statusFilter, priorityFilter >>
         /\ SetStatusFilter =>
              /\ SortState' = SortState /\ Selection' = Selection
              /\ << searchTerm, countyFilter, priorityFilter >>' =
                   << searchTerm, countyFilter, priorityFilter >>
         /\ SetPriorityFilter =>
              /\ SortState' = SortState /\ Selection' = Selection
              /\ << searchTerm, countyFilter, statusFilter >>' =
                   << searchTerm, countyFilter, statusFilter >> ]_vars

C24_Witness ==
  /\ searchTerm = "" /\ countyFilter = "" /\ statusFilter = "" /\ priorityFilter = ""
  /\ sortField = "priority"
  /\ sortDirection = "asc"
  /\ showDetails
  /\ selectedIncident = P2
  /\ rendered.rows = << P2 >>
====
